---- MODULE Spec2Model ----
(***************************************************************************)
(* OutputManager<OutType, StringType> (src/OutputManager.h): a formatter   *)
(* that holds a reference to a caller-owned output stream, a separator, an *)
(* end-of-line string and a minimum width, and prints values, ranges and   *)
(* tables to the stream.                                                   *)
(*                                                                         *)
(* Text is a sequence of one-character strings.  A stream is a record of   *)
(* the std::basic_ostream state the class touches: the characters written  *)
(* so far, width(), the adjustfield and floatfield flag groups,            *)
(* precision(), the error state, the exceptions() mask, and how many more  *)
(* characters its sink accepts.                                            *)
(***************************************************************************)
EXTENDS Integers, Sequences, FiniteSets

VARIABLES fmt, stream, last, nops, recent

vars == <<fmt, stream, last, nops, recent>>

(***************************************************************************)
(* Bounds of the model.                                                    *)
(***************************************************************************)
\* Number of calls made after the first construction.
MaxOps == 2
\* Longest range printed and largest number of call-operator arguments.
MaxN == 2
\* Largest number of parallel ("Others") iterators.
MaxK == 2
\* Largest capacity of a sink that fills up.
MaxCap == 6

(***************************************************************************)
(* Inputs.                                                                 *)
(***************************************************************************)
Formatters == {1, 2}
Streams == {"wcout", "os"}
DefaultSeparator == <<" ">>
DefaultEndOfLine == <<"\n">>
Seps == {DefaultSeparator, <<",", " ">>}
Eols == {DefaultEndOfLine, <<";", "\n">>}
Widths == {0, 4}
Precisions == {0, 2}
Modes == {-1, 0, 1}

(***************************************************************************)
(* The containers the iterators of the model point into, as in the         *)
(* documentation's examples: one of ints, one of doubles, one of strings.  *)
(* Each holds one element more than the longest range printed.             *)
(***************************************************************************)
ContLen == MaxN + 1
DigitChars == <<"0", "1", "2", "3", "4", "5", "6", "7", "8", "9">>
Digit(i) == DigitChars[(i % 10) + 1]
WordList == << <<"C", "a", "t">>, <<"M", "o", "u", "s", "e">>, <<"O", "x">> >>
Numbers == [i \in 1..ContLen |->
              [kind |-> "int",
               text |-> IF i % 2 = 0 THEN <<"-", Digit(i)>> ELSE <<Digit(i)>>]]
Floats == [i \in 1..ContLen |-> [kind |-> "flt", text |-> <<Digit(i)>>]]
Words == [i \in 1..ContLen |->
            [kind |-> "str", text |-> WordList[((i - 1) % Len(WordList)) + 1]]]
Containers == {"Numbers", "Floats", "Words"}
Container(c) ==
  CASE c = "Numbers" -> Numbers
    [] c = "Floats" -> Floats
    [] c = "Words" -> Words

\* An iterator: a position in a container; ContLen + 1 is the past-the-end one.
Iter(c, p) == [c |-> c, pos |-> p]
Advance(it, n) == [it EXCEPT !.pos = @ + n]
Distance(a, b) == b.pos - a.pos
Deref(it) == Container(it.c)[it.pos]

Min(a, b) == IF a < b THEN a ELSE b

Fill(n) == [i \in 1..n |-> " "]
Zeros(n) == [i \in 1..n |-> "0"]

(***************************************************************************)
(* The output stream (OutType, a std::basic_ostream).                      *)
(***************************************************************************)
\* A stream nothing has been written to and no flag of which has been set.
FreshStream(limited, cap, exc) ==
  [buf |-> <<>>, width |-> 0, adjust |-> {}, floatf |-> {}, prec |-> 6,
   bad |-> FALSE, exc |-> exc, limited |-> limited, cap |-> cap,
   thrown |-> FALSE]

\* ios_base::setf(flag, adjustfield), what std::left, std::right and
\* std::internal do: the group is cleared, then the flag is set.
SetAdjust(s, flag) == [s EXCEPT !.adjust = {flag}]
\* ios_base::setf(flag, floatfield), what std::fixed and std::scientific do.
SetFloat(s, flag) == [s EXCEPT !.floatf = {flag}]
\* ios_base::unsetf(flag) on a floatfield flag.
UnsetFloat(s, flag) == [s EXCEPT !.floatf = @ \ {flag}]

\* The characters num_put and the string inserter produce for a value, before
\* padding.  A double of the model is d.5 for a digit d.
HalfEven(d) == IF d % 2 = 1 THEN d + 1 ELSE d
DigitOf(ch) == CHOOSE d \in 0..9 : DigitChars[d + 1] = ch
Rounded(text) == <<Digit(HalfEven(DigitOf(text[1])))>>
HexFloats == << <<"0", "x", "1", ".", "8", "p", "+", "0">>,
                <<"0", "x", "1", ".", "4", "p", "+", "1">>,
                <<"0", "x", "1", ".", "c", "p", "+", "1">>,
                <<"0", "x", "1", ".", "2", "p", "+", "2">> >>
Exponent == <<"e", "+", "0", "0">>
Render(v, s) ==
  IF v.kind # "flt" THEN v.text
  ELSE LET exact == v.text \o <<".", "5">>
       IN CASE s.floatf = {"fixed"} ->
                 IF s.prec = 0 THEN Rounded(v.text)
                 ELSE exact \o Zeros(s.prec - 1)
            [] s.floatf = {"scientific"} ->
                 (IF s.prec = 0 THEN Rounded(v.text)
                  ELSE exact \o Zeros(s.prec - 1)) \o Exponent
            [] s.floatf = {} ->
                 IF s.prec <= 1 THEN Rounded(v.text) ELSE exact
            [] OTHER -> HexFloats[DigitOf(v.text[1])]

\* Padding of text to width w: fill after the text when adjustfield is left,
\* between the sign and the digits of a number when it is internal, before
\* the text otherwise.
Pad(text, w, adjust, kind) ==
  IF w <= Len(text) THEN text
  ELSE LET fill == Fill(w - Len(text))
       IN CASE adjust = {"left"} -> text \o fill
            [] adjust = {"internal"} /\ kind # "str" /\ text[1] = "-" ->
                 <<"-">> \o fill \o Tail(text)
            [] OTHER -> fill \o text

\* A formatted insertion, OutStream__ << x, of the characters text.  After
\* an exception has left the calling function nothing more happens.  A stream
\* that is not good writes nothing (and throws under exceptions()).  A good
\* stream pads to width(), resets width() to 0 and hands the characters to
\* its sink; what the sink does not accept is lost and sets the error state.
Insert(s, text, kind) ==
  IF s.thrown THEN s
  ELSE IF s.bad THEN [s EXCEPT !.thrown = s.exc]
  ELSE LET padded == Pad(text, s.width, s.adjust, kind)
           n == IF s.limited THEN Min(Len(padded), s.cap) ELSE Len(padded)
       IN [s EXCEPT !.buf = @ \o SubSeq(padded, 1, n),
                    !.cap = IF s.limited THEN @ - n ELSE @,
                    !.width = 0,
                    !.bad = n < Len(padded),
                    !.thrown = n < Len(padded) /\ s.exc]

\* OutStream__ << std::setw(w)
SetW(s, w) == IF s.thrown THEN s ELSE [s EXCEPT !.width = w]

(***************************************************************************)
(* The class.  A formatter is a record of its four attributes; OutStream__ *)
(* is the name of the stream it refers to.  Every member function is an    *)
(* operator from the formatter (and its stream) to the stream or formatter *)
(* it leaves behind.                                                       *)
(***************************************************************************)
NoFormatter ==
  [alive |-> FALSE, OutStream__ |-> "wcout", Separator__ |-> <<>>,
   EndOfLine__ |-> <<>>, Width__ |-> 0]

SetWidth(m, Width) == [m EXCEPT !.Width__ = Width]

\* SetSeparator with += for =: the new separator is appended to the old one.
SetSeparatorAppends(m, Separator) ==
  [m EXCEPT !.Separator__ = @ \o Separator]

SetSeparator(m, Separator) == [m EXCEPT !.Separator__ = Separator]

SetEndOfLine(m, EndOfLine) == [m EXCEPT !.EndOfLine__ = EndOfLine]

\* SetAlignment with the two non-zero branches exchanged.
SetAlignmentSwapped(s, Alignment) ==
  IF Alignment # 0
    THEN IF Alignment > 0 THEN SetAdjust(s, "right") ELSE SetAdjust(s, "left")
    ELSE SetAdjust(s, "internal")

SetAlignment(s, Alignment) ==
  IF Alignment # 0
    THEN IF Alignment > 0 THEN SetAdjust(s, "left") ELSE SetAdjust(s, "right")
    ELSE SetAdjust(s, "internal")

SetPrecision(s, Precision) == [s EXCEPT !.prec = Precision]

\* SetFloatMode whose zero branch clears std::ios_base::fixed only.
SetFloatModeKeepsScientific(s, Mode) ==
  IF Mode # 0
    THEN IF Mode > 0 THEN SetFloat(s, "fixed") ELSE SetFloat(s, "scientific")
    ELSE UnsetFloat(s, "fixed")

SetFloatMode(s, Mode) ==
  IF Mode # 0
    THEN IF Mode > 0 THEN SetFloat(s, "fixed") ELSE SetFloat(s, "scientific")
    ELSE UnsetFloat(UnsetFloat(s, "fixed"), "scientific")

\* The member initialisers of the four constructors.
OutputManager(OutStream, Separator, EndOfLine) ==
  [alive |-> TRUE, OutStream__ |-> OutStream, Separator__ |-> Separator,
   EndOfLine__ |-> EndOfLine, Width__ |-> 0]

\* The insertion of a value without std::setw(Width__).
PutValueWithoutWidth(m, s, ToPrint) ==
  Insert(s, Render(ToPrint, s), ToPrint.kind)

\* OutStream__ << std::setw(Width__) << ToPrint
PutValue(m, s, ToPrint) ==
  Insert(SetW(s, m.Width__), Render(ToPrint, s), ToPrint.kind)

\* OutStream__ << Separator__  and  OutStream__ << EndOfLine__
PutString(s, str) == Insert(s, str, "str")

\* The call operator whose one-argument overload writes the separator too.
RECURSIVE CallOperatorSeparatorAfterLast(_, _, _)
CallOperatorSeparatorAfterLast(m, s, args) ==
  IF Len(args) = 0 THEN PutString(s, m.EndOfLine__)
  ELSE IF Len(args) = 1
    THEN PutString(PutString(PutValue(m, s, args[1]), m.Separator__),
                   m.EndOfLine__)
    ELSE CallOperatorSeparatorAfterLast(
           m, PutString(PutValue(m, s, Head(args)), m.Separator__), Tail(args))

\* operator()(), operator()(T&&) and operator()(T&&, P&&...): the overload
\* is chosen by the number of arguments.
RECURSIVE CallOperator(_, _, _)
CallOperator(m, s, args) ==
  IF Len(args) = 0 THEN PutString(s, m.EndOfLine__)
  ELSE IF Len(args) = 1
    THEN PutString(PutValue(m, s, args[1]), m.EndOfLine__)
    ELSE CallOperator(m, PutString(PutValue(m, s, Head(args)), m.Separator__),
                      Tail(args))

\* The loop of PrintRange without the separator after the last element.
RECURSIVE PrintRangeLoopTrimmed(_, _, _, _)
PrintRangeLoopTrimmed(m, s, Begin, End) ==
  IF Begin = End THEN s
  ELSE PrintRangeLoopTrimmed(
         m,
         IF Advance(Begin, 1) = End THEN PutValue(m, s, Deref(Begin))
         ELSE PutString(PutValue(m, s, Deref(Begin)), m.Separator__),
         Advance(Begin, 1), End)

RECURSIVE PrintRangeLoop(_, _, _, _)
PrintRangeLoop(m, s, Begin, End) ==
  IF Begin = End THEN s
  ELSE PrintRangeLoop(m, PutString(PutValue(m, s, Deref(Begin)), m.Separator__),
                      Advance(Begin, 1), End)

\* PrintRange ending with OutStream__.clear().
PrintRangeClearingError(m, s, Begin, End) ==
  [PutString(PrintRangeLoop(m, s, Begin, End), m.EndOfLine__)
     EXCEPT !.bad = FALSE, !.thrown = FALSE]

PrintRange(m, s, Begin, End) ==
  PutString(PrintRangeLoop(m, s, Begin, End), m.EndOfLine__)

\* FormatToColumns without the advance of the iterators in Others.
RECURSIVE FormatToColumnsOthersNotAdvanced(_, _, _, _, _)
FormatToColumnsOthersNotAdvanced(m, s, Begin, End, Others) ==
  IF Begin = End THEN s
  ELSE FormatToColumnsOthersNotAdvanced(
         m,
         CallOperator(m, s, <<Deref(Begin)>>
                            \o [i \in 1..Len(Others) |-> Deref(Others[i])]),
         Advance(Begin, 1), End, Others)

RECURSIVE FormatToColumns(_, _, _, _, _)
FormatToColumns(m, s, Begin, End, Others) ==
  IF Begin = End THEN s
  ELSE FormatToColumns(
         m,
         CallOperator(m, s, <<Deref(Begin)>>
                            \o [i \in 1..Len(Others) |-> Deref(Others[i])]),
         Advance(Begin, 1), End,
         [i \in 1..Len(Others) |-> Advance(Others[i], 1)])

\* The fold of FormatToRows over the pack Others, first to last.
RECURSIVE RowsOfOthers(_, _, _, _, _)
RowsOfOthers(m, s, Begin, End, Others) ==
  IF Others = <<>> THEN s
  ELSE LET NewBegin == Head(Others)
           NewEnd == Advance(NewBegin, Distance(Begin, End))
       IN RowsOfOthers(m, PrintRange(m, s, NewBegin, NewEnd), Begin, End,
                       Tail(Others))

\* FormatToRows printing the range [Begin, End) after the others.
FormatToRowsFirstRangeLast(m, s, Begin, End, Others) ==
  PrintRange(m, RowsOfOthers(m, s, Begin, End, Others), Begin, End)

FormatToRows(m, s, Begin, End, Others) ==
  RowsOfOthers(m, PrintRange(m, s, Begin, End), Begin, End, Others)

\* FirstNElementsRows taking N for the index of the last element.
FirstNElementsRowsOffByOne(m, s, N, Begin, Others) ==
  LET End == Advance(Begin, IF N > 0 THEN N - 1 ELSE 0)
  IN FormatToRows(m, s, Begin, End, Others)

FirstNElementsRows(m, s, N, Begin, Others) ==
  LET End == Advance(Begin, N)
  IN FormatToRows(m, s, Begin, End, Others)

(***************************************************************************)
(* The state machine.  fmt[f] is formatter f, stream[n] the stream named   *)
(* n.  last records the latest call: the member function, the formatter,   *)
(* the arguments, the state it started from and whether it was left by an  *)
(* exception, and the call before it.  nops counts the calls.  recent     *)
(* records, for every formatter and stream, the argument of the most       *)
(* recent call that selected its separator, end of line, width, alignment  *)
(* and floating-point mode.                                                *)
(***************************************************************************)
PrintOps == {"operator()", "PrintRange", "FormatToColumns", "FormatToRows",
             "FirstNElementsRows"}
Constructors == {"OutputManager()", "OutputManager(OutStream)",
                 "OutputManager(Separator, EndOfLine)",
                 "OutputManager(OutStream, Separator, EndOfLine)"}

\* The packs of parallel iterators: up to MaxK of them, over containers of
\* different element types, the j-th starting at the first or second element.
PackCycle == [i \in 1..(3 + MaxK) |->
               CASE i % 3 = 1 -> "Floats"
                 [] i % 3 = 2 -> "Words"
                 [] OTHER -> "Numbers"]
PackOf(a, k) == [j \in 1..k |-> Iter(PackCycle[a + j - 1], 1 + ((j - 1) % 2))]
Packs == {PackOf(a, k) : a \in 1..3, k \in 0..MaxK}
\* The ranges [Begin, End) of at most MaxN elements.
Ranges == {<<Iter(c, b), Iter(c, b + n)>> :
             c \in Containers, b \in 1..2, n \in 0..MaxN}
\* The argument lists of the call operator.
ArgLists == {[j \in 1..Len(p) |-> Deref(p[j])] : p \in Packs}
             \cup {[j \in 1..n |-> Numbers[2]] : n \in 1..MaxN}

\* What the caller guarantees: every iterator can be advanced over n elements.
Covers(it, n) == it.pos >= 1 /\ n >= 0 /\ it.pos + n <= ContLen + 1
ValidTable(Begin, n, Others) ==
  /\ Covers(Begin, n)
  /\ \A j \in 1..Len(Others) : Covers(Others[j], n)

Out(f) == stream[fmt[f].OutStream__]

\* The bookkeeping of a call of formatter f that leaves it as m2 and its
\* stream as s2.
Step(f, op, args, m2, s2) ==
  /\ nops < MaxOps
  /\ fmt' = [fmt EXCEPT ![f] = m2]
  /\ stream' = [stream EXCEPT ![m2.OutStream__] = [s2 EXCEPT !.thrown = FALSE]]
  /\ last' = [op |-> op, f |-> f, args |-> args, fmt |-> fmt,
              stream |-> stream, threw |-> s2.thrown, prev |-> last.op]
  /\ nops' = nops + 1

Selection(value) == [set |-> TRUE, arg |-> value]
Unselected == [set |-> FALSE, arg |-> 0]
RecentOfFormatter(Separator, EndOfLine) ==
  [sep |-> Separator, eol |-> EndOfLine, width |-> 0]
RememberConstruction(f, OutStream, Separator, EndOfLine) ==
  recent' = [recent EXCEPT
               !.f[f] = RecentOfFormatter(Separator, EndOfLine),
               !.s[OutStream].align = Selection(1)]

ConstructDefault(f) ==
  /\ ~fmt[f].alive
  /\ Step(f, "OutputManager()", <<>>,
          OutputManager("wcout", DefaultSeparator, DefaultEndOfLine),
          SetAlignment(stream["wcout"], 1))
  /\ RememberConstruction(f, "wcout", DefaultSeparator, DefaultEndOfLine)

ConstructStream(f, OutStream) ==
  /\ ~fmt[f].alive
  /\ Step(f, "OutputManager(OutStream)", <<OutStream>>,
          OutputManager(OutStream, DefaultSeparator, DefaultEndOfLine),
          SetAlignment(stream[OutStream], 1))
  /\ RememberConstruction(f, OutStream, DefaultSeparator, DefaultEndOfLine)

ConstructStrings(f, Separator, EndOfLine) ==
  /\ ~fmt[f].alive
  /\ Step(f, "OutputManager(Separator, EndOfLine)", <<Separator, EndOfLine>>,
          OutputManager("wcout", Separator, EndOfLine),
          SetAlignment(stream["wcout"], 1))
  /\ RememberConstruction(f, "wcout", Separator, EndOfLine)

ConstructAll(f, OutStream, Separator, EndOfLine) ==
  /\ ~fmt[f].alive
  /\ Step(f, "OutputManager(OutStream, Separator, EndOfLine)",
          <<OutStream, Separator, EndOfLine>>,
          OutputManager(OutStream, Separator, EndOfLine),
          SetAlignment(stream[OutStream], 1))
  /\ RememberConstruction(f, OutStream, Separator, EndOfLine)

CallOperatorCall(f, args) ==
  /\ fmt[f].alive
  /\ Step(f, "operator()", args, fmt[f], CallOperator(fmt[f], Out(f), args))
  /\ UNCHANGED recent

PrintRangeCall(f, Begin, End) ==
  /\ fmt[f].alive
  /\ Covers(Begin, Distance(Begin, End))
  /\ Step(f, "PrintRange", [Begin |-> Begin, End |-> End], fmt[f],
          PrintRange(fmt[f], Out(f), Begin, End))
  /\ UNCHANGED recent

FormatToColumnsCall(f, Begin, End, Others) ==
  /\ fmt[f].alive
  /\ ValidTable(Begin, Distance(Begin, End), Others)
  /\ Step(f, "FormatToColumns",
          [Begin |-> Begin, End |-> End, Others |-> Others], fmt[f],
          FormatToColumns(fmt[f], Out(f), Begin, End, Others))
  /\ UNCHANGED recent

FormatToRowsCall(f, Begin, End, Others) ==
  /\ fmt[f].alive
  /\ ValidTable(Begin, Distance(Begin, End), Others)
  /\ Step(f, "FormatToRows",
          [Begin |-> Begin, End |-> End, Others |-> Others], fmt[f],
          FormatToRows(fmt[f], Out(f), Begin, End, Others))
  /\ UNCHANGED recent

FirstNElementsRowsCall(f, N, Begin, Others) ==
  /\ fmt[f].alive
  /\ ValidTable(Begin, N, Others)
  /\ Step(f, "FirstNElementsRows",
          [N |-> N, Begin |-> Begin, Others |-> Others], fmt[f],
          FirstNElementsRows(fmt[f], Out(f), N, Begin, Others))
  /\ UNCHANGED recent

SetWidthCall(f, Width) ==
  /\ fmt[f].alive
  /\ Step(f, "SetWidth", Width, SetWidth(fmt[f], Width), Out(f))
  /\ recent' = [recent EXCEPT !.f[f].width = Width]

SetSeparatorCall(f, Separator) ==
  /\ fmt[f].alive
  /\ Step(f, "SetSeparator", Separator, SetSeparator(fmt[f], Separator), Out(f))
  /\ recent' = [recent EXCEPT !.f[f].sep = Separator]

SetEndOfLineCall(f, EndOfLine) ==
  /\ fmt[f].alive
  /\ Step(f, "SetEndOfLine", EndOfLine, SetEndOfLine(fmt[f], EndOfLine), Out(f))
  /\ recent' = [recent EXCEPT !.f[f].eol = EndOfLine]

SetAlignmentCall(f, Alignment) ==
  /\ fmt[f].alive
  /\ Step(f, "SetAlignment", Alignment, fmt[f], SetAlignment(Out(f), Alignment))
  /\ recent' = [recent EXCEPT !.s[fmt[f].OutStream__].align = Selection(Alignment)]

SetPrecisionCall(f, Precision) ==
  /\ fmt[f].alive
  /\ Step(f, "SetPrecision", Precision, fmt[f], SetPrecision(Out(f), Precision))
  /\ UNCHANGED recent

SetFloatModeCall(f, Mode) ==
  /\ fmt[f].alive
  /\ Step(f, "SetFloatMode", Mode, fmt[f], SetFloatMode(Out(f), Mode))
  /\ recent' = [recent EXCEPT !.s[fmt[f].OutStream__].float = Selection(Mode)]

NoCall == [op |-> "none", f |-> 1, args |-> <<>>, fmt |-> <<>>,
           stream |-> <<>>, threw |-> FALSE, prev |-> "none"]

\* The state after the construction of formatter 1 on the stream OutStream,
\* the streams being as in fresh before it.
Constructed(OutStream, Separator, EndOfLine, fresh) ==
  /\ fmt = [f \in Formatters |->
              IF f = 1 THEN OutputManager(OutStream, Separator, EndOfLine)
              ELSE NoFormatter]
  /\ stream = [n \in Streams |->
                 IF n = OutStream THEN SetAlignment(fresh[n], 1) ELSE fresh[n]]
  /\ last = NoCall
  /\ nops = 0
  /\ recent = [f |-> [k \in Formatters |->
                        RecentOfFormatter(Separator, EndOfLine)],
               s |-> [n \in Streams |->
                        [align |-> IF n = OutStream THEN Selection(1)
                                   ELSE Unselected,
                         float |-> Unselected]]]

\* Formatter 1 has been constructed by one of the four constructors, on
\* streams that accept everything written to them.
Init ==
  \E OutStream \in Streams, Separator \in Seps, EndOfLine \in Eols :
    Constructed(OutStream, Separator, EndOfLine,
                [n \in Streams |-> FreshStream(FALSE, 0, FALSE)])

SmallRanges == {r \in Ranges : r[1].c = "Numbers" /\ r[1].pos = 1
                               /\ Distance(r[1], r[2]) \in {0, MaxN}}
SmallPacks == {PackOf(1, k) : k \in {0, MaxK}}
SmallArgLists == {[j \in 1..Len(p) |-> Deref(p[j])] : p \in SmallPacks}

Next ==
  \/ \E f \in Formatters : ConstructDefault(f)
  \/ \E f \in Formatters, os \in Streams : ConstructStream(f, os)
  \/ \E f \in Formatters, sep \in Seps, eol \in Eols :
       ConstructStrings(f, sep, eol)
  \/ \E f \in Formatters, os \in Streams, sep \in Seps, eol \in Eols :
       ConstructAll(f, os, sep, eol)
  \/ \E f \in Formatters, args \in SmallArgLists : CallOperatorCall(f, args)
  \/ \E f \in Formatters, r \in SmallRanges : PrintRangeCall(f, r[1], r[2])
  \/ \E f \in Formatters, r \in SmallRanges, p \in SmallPacks :
       FormatToColumnsCall(f, r[1], r[2], p)
  \/ \E f \in Formatters, r \in SmallRanges, p \in SmallPacks :
       FormatToRowsCall(f, r[1], r[2], p)
  \/ \E f \in Formatters, r \in SmallRanges, p \in SmallPacks :
       FirstNElementsRowsCall(f, Distance(r[1], r[2]), r[1], p)
  \/ \E f \in Formatters, w \in Widths : SetWidthCall(f, w)
  \/ \E f \in Formatters, sep \in Seps : SetSeparatorCall(f, sep)
  \/ \E f \in Formatters, eol \in Eols : SetEndOfLineCall(f, eol)
  \/ \E f \in Formatters, a \in Modes : SetAlignmentCall(f, a)
  \/ \E f \in Formatters, p \in Precisions : SetPrecisionCall(f, p)
  \/ \E f \in Formatters, mode \in Modes : SetFloatModeCall(f, mode)

Spec == Init /\ [][Next]_vars

(***************************************************************************)
(* A single print call, with arguments from the full input sets, in any    *)
(* configuration the constructors and setters produce: formatter 1 after   *)
(* construction, SetWidth, SetAlignment, SetFloatMode and (when prec is    *)
(* not the stream's initial 6) SetPrecision.                               *)
(***************************************************************************)
Configured(c, fresh) ==
  LET s0 == SetFloatMode(SetAlignment(SetAlignment(fresh, 1), c.Alignment),
                         c.Mode)
  IN /\ fmt = [f \in Formatters |->
                 IF f = 1
                   THEN SetWidth(OutputManager(c.OutStream, c.Separator,
                                               c.EndOfLine), c.Width)
                   ELSE NoFormatter]
     /\ stream = [n \in Streams |->
                    IF n = c.OutStream
                      THEN IF c.prec = s0.prec THEN s0
                           ELSE SetPrecision(s0, c.prec)
                      ELSE FreshStream(FALSE, 0, FALSE)]
     /\ last = NoCall
     /\ nops = 0
     /\ recent = [f |-> [k \in Formatters |->
                           [sep |-> c.Separator, eol |-> c.EndOfLine,
                            width |-> c.Width]],
                  s |-> [n \in Streams |->
                           IF n = c.OutStream
                             THEN [align |-> Selection(c.Alignment),
                                   float |-> Selection(c.Mode)]
                             ELSE [align |-> Unselected, float |-> Unselected]]]

\* What the process wrote to std::wcout before the formatter was made.
Earlier == <<"#", "\n">>

InitPrint ==
  \E OutStream \in Streams, Separator \in Seps, EndOfLine \in Eols,
     Width \in Widths, Alignment \in Modes, Mode \in Modes,
     prec \in Precisions \cup {FreshStream(FALSE, 0, FALSE).prec} :
    Configured([OutStream |-> OutStream, Separator |-> Separator,
                EndOfLine |-> EndOfLine, Width |-> Width,
                Alignment |-> Alignment, Mode |-> Mode, prec |-> prec],
               [FreshStream(FALSE, 0, FALSE) EXCEPT
                  !.buf = IF OutStream = "wcout" THEN Earlier ELSE <<>>])

TableRanges == {r \in Ranges : r[1].pos = 1}
FirstCall == last.op = "none"

NextPrint ==
  \/ \E args \in ArgLists : FirstCall /\ CallOperatorCall(1, args)
  \/ \E r \in Ranges : FirstCall /\ PrintRangeCall(1, r[1], r[2])
  \/ \E r \in TableRanges, p \in Packs :
       FirstCall /\ FormatToColumnsCall(1, r[1], r[2], p)
  \/ \E r \in TableRanges, p \in Packs :
       FirstCall /\ FormatToRowsCall(1, r[1], r[2], p)
  \/ \E r \in TableRanges, p \in Packs :
       FirstCall /\ FirstNElementsRowsCall(1, Distance(r[1], r[2]), r[1], p)

SpecPrint == InitPrint /\ [][NextPrint]_vars

(***************************************************************************)
(* A single print call on a stream whose sink accepts only cap more        *)
(* characters: a write of more sets the stream's error state, and throws   *)
(* when the caller has set the stream's exceptions() mask.  The stream may *)
(* be in the error state already, its sink being full.                     *)
(***************************************************************************)
InitFail ==
  \E Separator \in Seps, EndOfLine \in Eols, Width \in Widths,
     cap \in 0..MaxCap, exc \in BOOLEAN, bad \in BOOLEAN :
    /\ bad => cap = 0
    /\ Configured([OutStream |-> "os", Separator |-> Separator,
                   EndOfLine |-> EndOfLine, Width |-> Width, Alignment |-> 1,
                   Mode |-> 0, prec |-> FreshStream(FALSE, 0, FALSE).prec],
                  [FreshStream(TRUE, cap, exc) EXCEPT !.bad = bad])

SpecFail == InitFail /\ [][NextPrint]_vars

(***************************************************************************)
(* What the claims speak of.                                               *)
(***************************************************************************)
\* The formatter the latest call was made on, as the call found it, and its
\* stream before and after the call.
Callee == last.fmt[last.f]
Before == last.stream[Callee.OutStream__]
After == stream[Callee.OutStream__]
IsPrint == last.op \in PrintOps
IsConstruction == last.op \in Constructors

RECURSIVE Flatten(_)
Flatten(texts) ==
  IF texts = <<>> THEN <<>> ELSE Head(texts) \o Flatten(Tail(texts))
Count(text, ch) == Cardinality({i \in 1..Len(text) : text[i] = ch})
IsPrefix(a, b) == Len(a) <= Len(b) /\ SubSeq(b, 1, Len(a)) = a
Suffix(a, b) == SubSeq(b, Len(a) + 1, Len(b))
Elements(it, n) == [i \in 1..n |-> Container(it.c)[it.pos + i - 1]]

\* pad_w(v): the value as the stream renders it, filled to width w.
PadW(v, w) == Pad(Render(v, Before), w, Before.adjust, v.kind)
\* Values joined by sep, none after the last, then eol.
LineOf(vals, sep, eol, w) ==
  Flatten([i \in 1..Len(vals) |->
             IF i < Len(vals) THEN PadW(vals[i], w) \o sep
             ELSE PadW(vals[i], w)]) \o eol
\* Values each followed by sep, then eol.
RangeLineOf(vals, sep, eol, w) ==
  Flatten([i \in 1..Len(vals) |-> PadW(vals[i], w) \o sep]) \o eol
\* Line i of a table printed in columns, and the whole table.
ColumnsOf(Begin, n, Others, sep, eol, w) ==
  Flatten([i \in 1..n |->
             LineOf(<<Elements(Begin, n)[i]>>
                      \o [j \in 1..Len(Others) |-> Elements(Others[j], n)[i]],
                    sep, eol, w)])
\* A table printed in rows: the first sequence, then the others in order.
RowsOf(Begin, n, Others, sep, eol, w) ==
  RangeLineOf(Elements(Begin, n), sep, eol, w)
    \o Flatten([j \in 1..Len(Others) |->
                  RangeLineOf(Elements(Others[j], n), sep, eol, w)])

\* The complete output of the latest call, a print call, with separator sep,
\* end of line eol and width w.
OutputOf(sep, eol, w) ==
  CASE last.op = "operator()" -> LineOf(last.args, sep, eol, w)
    [] last.op = "PrintRange" ->
         RangeLineOf(Elements(last.args.Begin,
                              Distance(last.args.Begin, last.args.End)),
                     sep, eol, w)
    [] last.op = "FormatToColumns" ->
         ColumnsOf(last.args.Begin, Distance(last.args.Begin, last.args.End),
                   last.args.Others, sep, eol, w)
    [] last.op = "FormatToRows" ->
         RowsOf(last.args.Begin, Distance(last.args.Begin, last.args.End),
                last.args.Others, sep, eol, w)
    [] last.op = "FirstNElementsRows" ->
         RowsOf(last.args.Begin, last.args.N, last.args.Others, sep, eol, w)
FullOutput == OutputOf(Callee.Separator__, Callee.EndOfLine__, Callee.Width__)

\* The separator <<",", " ">> and both end-of-line strings hold a character
\* no value holds, so its occurrences count the separators and the lines.
Commas == Count(Suffix(Before.buf, After.buf), ",")
Newlines == Count(Suffix(Before.buf, After.buf), "\n")
CommaSeparated == Callee.Separator__ = <<",", " ">>

\* C1: the call operator with arguments v1..vn appends pad_w(v1), sep, ...,
\* pad_w(vn), eol: the arguments in call order, n-1 separators (none after
\* the last argument), one end of line; with no argument the end of line alone.
CallOperatorWritesLine ==
  last.op = "operator()" =>
    /\ After.buf = Before.buf
                     \o LineOf(last.args, Callee.Separator__,
                               Callee.EndOfLine__, Callee.Width__)
    /\ Newlines = 1
    /\ CommaSeparated =>
         Commas = (IF Len(last.args) = 0 THEN 0 ELSE Len(last.args) - 1)
    /\ Len(last.args) = 0 => After.buf = Before.buf \o Callee.EndOfLine__

CallOperatorWitness ==
  /\ last.op = "operator()"
  /\ Len(last.args) >= 2
  /\ Callee.Width__ > 0
  /\ CommaSeparated
  /\ Before.buf # <<>>
  /\ Len(After.buf) > Len(Before.buf)

\* C2: FormatToColumns over n = distance(Begin, End) positions and k parallel
\* sequences appends n lines, line i being the i-th element of the first
\* sequence and of every other, in argument order, joined by the separator
\* and ended by the end of line; nothing when n = 0.
FormatToColumnsWritesNLines ==
  last.op = "FormatToColumns" =>
    LET n == Distance(last.args.Begin, last.args.End)
        k == Len(last.args.Others)
    IN /\ After.buf = Before.buf
                        \o ColumnsOf(last.args.Begin, n, last.args.Others,
                                     Callee.Separator__, Callee.EndOfLine__,
                                     Callee.Width__)
       /\ Newlines = n
       /\ CommaSeparated => Commas = n * k
       /\ n = 0 => After.buf = Before.buf

FormatToColumnsWitness ==
  /\ last.op = "FormatToColumns"
  /\ Distance(last.args.Begin, last.args.End) >= 2
  /\ Len(last.args.Others) >= 2
  /\ Callee.Width__ > 0
  /\ Newlines = 2

FirstNElementsRowsTruncatesToN ==
  last.op = "FirstNElementsRows" =>
    LET k == Len(last.args.Others)
    IN /\ After.buf = Before.buf
                        \o RowsOf(last.args.Begin, last.args.N,
                                  last.args.Others, Callee.Separator__,
                                  Callee.EndOfLine__, Callee.Width__)
       /\ After.buf = FormatToRows(Callee, Before, last.args.Begin,
                                   Advance(last.args.Begin, last.args.N),
                                   last.args.Others).buf
       /\ last.args.N = 0 =>
            After.buf = Before.buf
                          \o Flatten([j \in 1..(1 + k) |-> Callee.EndOfLine__])

FirstNElementsRowsWitness ==
  /\ last.op = "FirstNElementsRows"
  /\ last.args.N = 2
  /\ Len(last.args.Others) >= 1
  /\ Newlines = 1 + Len(last.args.Others)
  /\ Len(Container(last.args.Begin.c)) > 2

\* The values the latest call, a print call, writes.
ValuesWritten ==
  CASE last.op = "operator()" -> {last.args[i] : i \in 1..Len(last.args)}
    [] last.op = "PrintRange" ->
         LET vals == Elements(last.args.Begin,
                              Distance(last.args.Begin, last.args.End))
         IN {vals[i] : i \in 1..Len(vals)}
    [] OTHER ->
         LET n == IF last.op = "FirstNElementsRows" THEN last.args.N
                  ELSE Distance(last.args.Begin, last.args.End)
             its == <<last.args.Begin>> \o last.args.Others
         IN {Elements(its[j], n)[i] : j \in 1..Len(its), i \in 1..n}

AlignmentOf(a) == IF a = 0 THEN "internal" ELSE IF a > 0 THEN "left" ELSE "right"

\* C7: the alignment of a stream is the one its most recent constructor
\* (left) or SetAlignment call selected, whichever formatter made it:
\* internal for 0, left for a positive and right for a negative argument;
\* exactly one of the three is in effect on a stream a formatter refers to,
\* and no other call changes it.
AlignmentIsMostRecentSelection ==
  \A n \in Streams :
    /\ recent.s[n].align.set =>
         stream[n].adjust = {AlignmentOf(recent.s[n].align.arg)}
    /\ (\E f \in Formatters : fmt[f].alive /\ fmt[f].OutStream__ = n) =>
         /\ Cardinality(stream[n].adjust) = 1
         /\ recent.s[n].align.set
    /\ IsConstruction => stream[fmt[last.f].OutStream__].adjust = {"left"}
    /\ last.op = "SetAlignment" => After.adjust = {AlignmentOf(last.args)}
    /\ last.op \notin Constructors \cup {"SetAlignment", "none"} =>
         stream[n].adjust = last.stream[n].adjust

AlignmentWitness ==
  /\ last.op = "SetAlignment"
  /\ last.f = 2
  /\ last.args < 0
  /\ last.prev \in Constructors
  /\ fmt[1].OutStream__ = fmt[2].OutStream__
  /\ Before.adjust = {"left"}
  /\ After.adjust = {"right"}

\* The floatfield flags an argument of SetFloatMode stands for.
FloatFlagsOf(mode) ==
  IF mode = 0 THEN {} ELSE IF mode > 0 THEN {"fixed"} ELSE {"scientific"}

\* C8: the floating-point notation of a stream is the one its most recent
\* SetFloatMode call selected: the default (neither flag) for 0, fixed for a
\* positive and scientific for a negative argument; the two flags are never
\* both set, and no other call (print, constructor, other setter) changes it.
FloatModeIsMostRecentSelection ==
  \A n \in Streams :
    /\ recent.s[n].float.set =>
         stream[n].floatf = FloatFlagsOf(recent.s[n].float.arg)
    /\ ~recent.s[n].float.set => stream[n].floatf = {}
    /\ Cardinality(stream[n].floatf) <= 1
    /\ last.op = "SetFloatMode" => After.floatf = FloatFlagsOf(last.args)
    /\ last.op \notin {"SetFloatMode", "none"} =>
         stream[n].floatf = last.stream[n].floatf

FloatModeWitness ==
  /\ last.op = "SetFloatMode"
  /\ last.prev = "SetFloatMode"
  /\ last.args = 0
  /\ Before.floatf = {"scientific"}
  /\ After.floatf = {}

\* C9: the separator and the end of line of a formatter are the arguments of
\* its most recent SetSeparator and SetEndOfLine calls (the constructor's
\* values when there was none), and the next print call writes these.  The
\* two setters change their own string only and write nothing; no print call
\* changes the separator, the end of line or the width.
SeparatorIsLastWritten ==
  /\ \A f \in Formatters :
       fmt[f].alive => /\ fmt[f].Separator__ = recent.f[f].sep
                       /\ fmt[f].EndOfLine__ = recent.f[f].eol
  /\ last.op = "SetSeparator" =>
       /\ fmt = [last.fmt EXCEPT ![last.f].Separator__ = last.args]
       /\ stream = last.stream
  /\ last.op = "SetEndOfLine" =>
       /\ fmt = [last.fmt EXCEPT ![last.f].EndOfLine__ = last.args]
       /\ stream = last.stream
  /\ IsPrint =>
       /\ fmt = last.fmt
       /\ After.buf = Before.buf
                        \o OutputOf(recent.f[last.f].sep, recent.f[last.f].eol,
                                    Callee.Width__)

SeparatorWitness ==
  /\ last.op = "SetSeparator"
  /\ last.prev = "SetSeparator"
  /\ Callee.Separator__ = <<",", " ">>
  /\ last.args = <<" ">>
  /\ fmt[last.f].Separator__ = <<" ">>

\* C10: a print call that returns without an exception has written its
\* complete output or has left the stream in its error state; the error
\* state and the exception are the stream's own, which the call neither
\* clears nor catches (under exceptions() every call that has something to
\* write to a failed stream throws).  What a failed call wrote is the
\* beginning of its output.
PrintCompletesOrStreamReportsFailure ==
  IsPrint =>
    /\ ~last.threw => (After.buf = Before.buf \o FullOutput \/ After.bad)
    /\ last.threw => After.bad /\ Before.exc
    /\ Before.bad => After.bad /\ After.buf = Before.buf
    /\ After.bad /\ Before.exc /\ FullOutput # <<>> => last.threw
    /\ IsPrefix(Before.buf, After.buf)
    /\ IsPrefix(After.buf, Before.buf \o FullOutput)
    /\ ~Before.bad /\ Before.cap >= Len(FullOutput) =>
         /\ After.buf = Before.buf \o FullOutput
         /\ ~After.bad
         /\ ~last.threw

PartialOutputWitness ==
  /\ IsPrint
  /\ ~last.threw
  /\ ~Before.bad
  /\ After.bad
  /\ Len(After.buf) > Len(Before.buf)
  /\ Len(After.buf) < Len(Before.buf \o FullOutput)

====
